---- MODULE Spec2Model ----
(***************************************************************************)
(* FlatMate (src/app.py): flattens a project directory into one Markdown   *)
(* document made of a directory tree listing and the contents of every     *)
(* file that the ignore patterns do not exclude.                           *)
(*                                                                         *)
(* Python strings are modelled as sequences of one-character strings, so   *)
(* that strip, split, substring containment, glob matching and path        *)
(* joining are computed character by character as the code does.           *)
(***************************************************************************)
EXTENDS Integers, Sequences, FiniteSets, TLC

----------------------------------------------------------------------------
(* Bounds of the model *)

\* most entries (files and directories) below the project directory,
\* the two pattern files not counted
MaxEntries == 3
\* most lines of the two pattern files together
MaxLines == 2
\* most entries (project directory included) that are unreadable or are
\* symbolic links to a directory
MaxFaults == 1

----------------------------------------------------------------------------
(* Strings *)

\* the characters the model's strings are made of, in code point order
Chars ==
  << "\n", " ", "#", "*", ".", "/", "?",
     "a", "b", "c", "d", "e", "f", "g", "h", "i", "j", "k", "l", "m",
     "n", "o", "p", "q", "r", "s", "t", "u", "v", "w", "x", "y", "z" >>

\* ord(c)
Ord(c) == CHOOSE i \in 1..Len(Chars) : Chars[i] = c

\* str.__lt__: comparison by code points, a proper prefix is smaller
RECURSIVE StrLess(_, _)
StrLess(a, b) ==
  IF b = << >> THEN FALSE
  ELSE IF a = << >> THEN TRUE
  ELSE IF Head(a) = Head(b) THEN StrLess(Tail(a), Tail(b))
  ELSE Ord(Head(a)) < Ord(Head(b))

\* part in pattern: part occurs in pattern as a contiguous run
IsIn(part, pattern) ==
  \E i \in 0..(Len(pattern) - Len(part)) :
     SubSeq(pattern, i + 1, i + Len(part)) = part

\* str.startswith
StartsWith(s, prefix) ==
  /\ Len(prefix) <= Len(s)
  /\ SubSeq(s, 1, Len(prefix)) = prefix

\* the characters str.strip() removes
Whitespace == {" ", "\n"}

\* str.strip()
RECURSIVE strip(_)
strip(s) ==
  IF s = << >> THEN s
  ELSE IF Head(s) \in Whitespace THEN strip(Tail(s))
  ELSE IF s[Len(s)] \in Whitespace THEN strip(SubSeq(s, 1, Len(s) - 1))
  ELSE s

\* str.split("/"): the pieces between the separators, empty pieces kept
RECURSIVE split(_)
split(s) ==
  IF \A i \in 1..Len(s) : s[i] # "/" THEN << s >>
  ELSE LET i == CHOOSE k \in 1..Len(s) :
                   /\ s[k] = "/"
                   /\ \A j \in 1..(k - 1) : s[j] # "/"
       IN  << SubSeq(s, 1, i - 1) >> \o split(SubSeq(s, i + 1, Len(s)))

\* "/".join(parts)
RECURSIVE joinSlash(_)
joinSlash(parts) ==
  IF parts = << >> THEN << >>
  ELSE IF Len(parts) = 1 THEN parts[1]
  ELSE parts[1] \o << "/" >> \o joinSlash(Tail(parts))

\* os.path.join(a, b) of posixpath
os_path_join(a, b) ==
  IF StartsWith(b, << "/" >>) THEN b
  ELSE IF a = << >> \/ a[Len(a)] = "/" THEN a \o b
  ELSE a \o << "/" >> \o b

\* pathlib.Path(path).as_posix() of a PurePosixPath: the root is kept, empty
\* and "." components are dropped, and the empty path is "."
IsPart(x) == x # << >> /\ x # << "." >>

as_posix(path) ==
  LET root  == IF StartsWith(path, << "/", "/" >>)
                  /\ ~ StartsWith(path, << "/", "/", "/" >>)
               THEN << "/", "/" >>
               ELSE IF StartsWith(path, << "/" >>) THEN << "/" >>
               ELSE << >>
      parts == SelectSeq(split(path), IsPart)
      text  == root \o joinSlash(parts)
  IN  IF text = << >> THEN << "." >> ELSE text

\* fnmatch.fnmatch(name, pat) on a POSIX host (normcase is the identity):
\* "*" matches any run of characters, "/" included, "?" any one character,
\* every other character of the model's alphabet matches itself
RECURSIVE fnmatch(_, _)
fnmatch(name, pat) ==
  IF pat = << >> THEN name = << >>
  ELSE IF Head(pat) = "*"
       THEN \E k \in 0..Len(name) :
               fnmatch(SubSeq(name, k + 1, Len(name)), Tail(pat))
  ELSE IF name = << >> THEN FALSE
  ELSE /\ Head(pat) = "?" \/ Head(pat) = Head(name)
       /\ fnmatch(Tail(name), Tail(pat))

----------------------------------------------------------------------------
(* Pattern Matcher *)

\* PatternHits with the containment test turned around: pattern in part
PatternHits_reversed(path, pattern) ==
  \/ fnmatch(path, pattern)
  \/ \E i \in 1..Len(split(path)) : IsIn(pattern, split(path)[i])

\* the test of one pattern in the loop of should_ignore
PatternHits(path, pattern) ==
  \/ fnmatch(path, pattern)
  \/ \E i \in 1..Len(split(path)) : IsIn(split(path)[i], pattern)

\* the loop of should_ignore over the patterns from index i on
RECURSIVE should_ignore_from(_, _, _)
should_ignore_from(path, ignore_patterns, i) ==
  IF i > Len(ignore_patterns) THEN FALSE
  ELSE IF PatternHits(path, ignore_patterns[i]) THEN TRUE
  ELSE should_ignore_from(path, ignore_patterns, i + 1)

should_ignore(path, ignore_patterns) ==
  should_ignore_from(as_posix(path), ignore_patterns, 1)

\* read_lines with the comment test made on the line as read, not stripped
RECURSIVE read_lines_raw_comment(_)
read_lines_raw_comment(lines) ==
  IF lines = << >> THEN << >>
  ELSE LET line == strip(Head(lines))
       IN  IF line # << >> /\ ~ StartsWith(Head(lines), << "#" >>)
           THEN << line >> \o read_lines_raw_comment(Tail(lines))
           ELSE read_lines_raw_comment(Tail(lines))

\* the lines read_gitignore keeps, in file order
RECURSIVE read_lines(_)
read_lines(lines) ==
  IF lines = << >> THEN << >>
  ELSE LET line == strip(Head(lines))
       IN  IF line # << >> /\ ~ StartsWith(line, << "#" >>)
           THEN << line >> \o read_lines(Tail(lines))
           ELSE read_lines(Tail(lines))

----------------------------------------------------------------------------
(* The file system the run reads *)

VARIABLES
  root_path,        \* the project_dir argument
  present,          \* the entries that exist below the project directory
  unreadable,       \* entries whose listing (directory) or open (file) fails
  links,            \* directories that are symbolic links to a directory
  lines,            \* the lines of the two pattern files
  pc,               \* position in create_doc_file
  gitignore_path,   \* the pattern file create_doc_file settled on
  ignore_patterns,  \* the Pattern Set
  file_tree,        \* lines of the Tree Section
  documentation,    \* the document: Content Section, then Tree Section added
  written,          \* whether the document is at save_path
  log,              \* the records given to logging
  failures          \* history: the read failures that occurred so far

vars == << root_path, present, unreadable, links, lines, pc, gitignore_path,
           ignore_patterns, file_tree, documentation, written, log,
           failures >>

\* entry 0 is the project directory; the others are the candidate entries
Root == 0
Nodes == 0..9
GitignoreNode == 1
FallbackNode == 2
PatternFileNodes == {GitignoreNode, FallbackNode}

NodeName ==
  [n \in Nodes |->
     CASE n = 0 -> << >>
       [] n = 1 -> << ".", "g", "i", "t", "i", "g", "n", "o", "r", "e" >>
       [] n = 2 -> << "i", "g", "n", "o", "r", "e", ".", "t", "x", "t" >>
       [] n = 3 -> << "a", ".", "l", "o", "g" >>
       [] n = 4 -> << "a", ".", "t", "x", "t" >>
       [] n = 5 -> << "b", "u", "i", "l", "d" >>
       [] n = 6 -> << "x", ".", "o" >>
       [] n = 7 -> << "l", "i", "b" >>
       [] n = 8 -> << "o", "b", "j" >>
       [] n = 9 -> << "a", ".", "t", "x", "t" >>]

NodeParent ==
  [n \in Nodes |->
     CASE n \in {0, 1, 2, 3, 4, 5, 7} -> 0
       [] n \in {6, 8} -> 5
       [] n = 9 -> 8]

Dirs == {0, 5, 7, 8}
Files == Nodes \ Dirs

\* os.path.isdir(path) for the entry at path (a link to a directory counts)
isdir(n) == n \in Dirs

\* the proper ancestors of an entry, the project directory included
RECURSIVE Ancestors(_)
Ancestors(n) ==
  IF n = Root THEN {} ELSE {NodeParent[n]} \cup Ancestors(NodeParent[n])

\* the path an entry has when reached from root_path by os.path.join
RECURSIVE JoinedPath(_, _)
JoinedPath(n, top) ==
  IF n = Root THEN top
  ELSE os_path_join(JoinedPath(NodeParent[n], top), NodeName[n])

\* the entries a path names: the kernel skips "." components as as_posix does
Lookup(path, top, exist) ==
  {n \in exist : as_posix(JoinedPath(n, top)) = as_posix(path)}

\* os.path.exists(path)
os_path_exists(path, top, exist) == Lookup(path, top, exist) # {}

\* os.listdir(d): the names in d, in no particular order
listdir(d, exist) == {n \in exist : n # Root /\ NodeParent[n] = d}

\* sorted(names): ascending by code points
RECURSIVE sorted(_)
sorted(S) ==
  IF S = {} THEN << >>
  ELSE LET m == CHOOSE x \in S :
                  \A y \in S \ {x} : StrLess(NodeName[x], NodeName[y])
       IN  << m >> \o sorted(S \ {m})

Reverse(s) == [i \in 1..Len(s) |-> s[Len(s) + 1 - i]]

\* os.scandir(d): the order is the file system's; the model has two of them
scandir(d, exist, rev) ==
  IF rev THEN Reverse(sorted(listdir(d, exist))) ELSE sorted(listdir(d, exist))

----------------------------------------------------------------------------
(* read_gitignore *)

LogRecord(level, msg, path) == [level |-> level, msg |-> msg, path |-> path]

\* read_gitignore(gitignore_path): the patterns and the log records it makes
read_gitignore(path, top, exist, content) ==
  LET found == Lookup(path, top, exist)
  IN  IF found = {}
      THEN [patterns |-> << >>,
            log |-> << LogRecord("warning", "not found", path) >>]
      ELSE LET f == CHOOSE n \in found : TRUE
           IN  [patterns |-> read_lines(content[f]),
                log |-> << LogRecord("info", "Loaded", path) >>]

----------------------------------------------------------------------------
(* get_language_extension *)

\* pathlib.Path(file).suffix: from the last dot on, unless that dot is the
\* first or the last character of the name
suffix(name) ==
  LET dots == {i \in 1..Len(name) : name[i] = "."}
  IN  IF dots = {} THEN << >>
      ELSE LET i == CHOOSE k \in dots : \A j \in dots : j <= k
           IN  IF 1 < i /\ i < Len(name)
               THEN SubSeq(name, i, Len(name)) ELSE << >>

extensions ==
  { << << ".", "p", "y" >>, "python" >>,
    << << ".", "j", "s" >>, "javascript" >>,
    << << ".", "h", "t", "m", "l" >>, "html" >>,
    << << ".", "c", "s", "s" >>, "css" >>,
    << << ".", "j", "a", "v", "a" >>, "java" >>,
    << << ".", "c", "p", "p" >>, "cpp" >>,
    << << ".", "c" >>, "c" >>,
    << << ".", "s", "h" >>, "bash" >>,
    << << ".", "R" >>, "r" >>,
    << << ".", "c", "s" >>, "csharp" >>,
    << << ".", "g", "o" >>, "go" >>,
    << << ".", "p", "h", "p" >>, "php" >>,
    << << ".", "r", "b" >>, "ruby" >>,
    << << ".", "r", "s" >>, "rust" >>,
    << << ".", "s", "q", "l" >>, "sql" >>,
    << << ".", "s", "w", "i", "f", "t" >>, "swift" >>,
    << << ".", "t", "s" >>, "typescript" >>,
    << << ".", "v", "b" >>, "vb" >>,
    << << ".", "x", "m", "l" >>, "xml" >>,
    << << ".", "y", "m", "l" >>, "yaml" >>,
    << << ".", "y", "a", "m", "l" >>, "yaml" >> }

get_language_extension(file) ==
  IF \E e \in extensions : e[1] = suffix(file)
  THEN (CHOOSE e \in extensions : e[1] = suffix(file))[2]
  ELSE ""

----------------------------------------------------------------------------
(* Tree & Content Renderer *)

\* what a pass returns: its output, its log records, and (history) the read
\* failures that occurred in it
Out(text, records, fails) == [text |-> text, log |-> records, fails |-> fails]
Nothing == Out(<< >>, << >>, {})
Cat(a, b) == Out(a.text \o b.text, a.log \o b.log, a.fails \cup b.fails)

Failure(pass, kind, path) == [pass |-> pass, kind |-> kind, path |-> path]

\* one line of the Tree Section: indent_level indent markers, then the entry
\* name (with "/" for a directory) or the error text; node and path record
\* which entry the line stands for
TreeLine(indent_level, kind, n, path) ==
  [indent |-> indent_level, kind |-> kind, node |-> n, path |-> path,
   text |-> IF kind = "dir" THEN NodeName[n] \o << "/" >>
            ELSE IF kind = "file" THEN NodeName[n]
            ELSE << >>]

\* recurse_folder(current_dir, indent_level); d is the directory at
\* current_dir and fs the file system as [present, unreadable, links]
RECURSIVE recurse_folder(_, _, _, _, _)
RECURSIVE recurse_items(_, _, _, _, _)

\* recurse_items in which only files are tested against the patterns
recurse_items_dirs_kept(items, current_dir, indent_level, patterns, fs) ==
  IF items = << >> THEN Nothing
  ELSE
    LET item      == Head(items)
        item_path == os_path_join(current_dir, NodeName[item])
        rest      == recurse_items(Tail(items), current_dir, indent_level,
                                   patterns, fs)
    IN  IF isdir(item)
        THEN Cat(Out(<< TreeLine(indent_level, "dir", item, item_path) >>,
                     << >>, {}),
                 Cat(recurse_folder(item, item_path, indent_level + 1,
                                    patterns, fs),
                     rest))
        ELSE IF should_ignore(item_path, patterns) THEN rest
        ELSE Cat(Out(<< TreeLine(indent_level, "file", item, item_path) >>,
                     << >>, {}),
                 rest)

\* recurse_items in which a directory that cannot be listed ends the loop of
\* its parent
recurse_items_abort(items, current_dir, indent_level, patterns, fs) ==
  IF items = << >> THEN Nothing
  ELSE
    LET item      == Head(items)
        item_path == os_path_join(current_dir, NodeName[item])
        rest      == IF item \in fs.unreadable /\ isdir(item) THEN Nothing
                     ELSE recurse_items(Tail(items), current_dir,
                                        indent_level, patterns, fs)
    IN  IF should_ignore(item_path, patterns) THEN rest
        ELSE IF isdir(item)
        THEN Cat(Out(<< TreeLine(indent_level, "dir", item, item_path) >>,
                     << >>, {}),
                 Cat(recurse_folder(item, item_path, indent_level + 1,
                                    patterns, fs),
                     rest))
        ELSE Cat(Out(<< TreeLine(indent_level, "file", item, item_path) >>,
                     << >>, {}),
                 rest)

\* the body of the for loop of recurse_folder, for the items still to do
recurse_items(items, current_dir, indent_level, patterns, fs) ==
  IF items = << >> THEN Nothing
  ELSE
    LET item      == Head(items)
        item_path == os_path_join(current_dir, NodeName[item])
        rest      == recurse_items(Tail(items), current_dir, indent_level,
                                   patterns, fs)
    IN  IF should_ignore(item_path, patterns) THEN rest
        ELSE IF isdir(item)
        THEN Cat(Out(<< TreeLine(indent_level, "dir", item, item_path) >>,
                     << >>, {}),
                 Cat(recurse_folder(item, item_path, indent_level + 1,
                                    patterns, fs),
                     rest))
        ELSE Cat(Out(<< TreeLine(indent_level, "file", item, item_path) >>,
                     << >>, {}),
                 rest)

recurse_folder(d, current_dir, indent_level, patterns, fs) ==
  IF d \in fs.unreadable
  THEN Out(<< TreeLine(indent_level, "error", d, current_dir) >>,
           << LogRecord("error", "Error accessing", current_dir) >>,
           {Failure("tree", "dir", current_dir)})
  ELSE recurse_items(sorted(listdir(d, fs.present)), current_dir,
                     indent_level, patterns, fs)

format_directory_structure(directory, patterns, fs) ==
  recurse_folder(Root, directory, 0, patterns, fs)

\* one block of the Content Section: the header path, the fence tag and the
\* body, which is the file's text or the inline error
Block(n, file_path, fs) ==
  [path |-> file_path, node |-> n,
   language |-> get_language_extension(NodeName[n]),
   body |-> IF n \in fs.unreadable THEN "Error reading file" ELSE "text"]

\* the inner loop of concatenate_files_to_markdown over the files of one
\* directory
RECURSIVE concat_files(_, _, _, _)
concat_files(files, root, patterns, fs) ==
  IF files = << >> THEN Nothing
  ELSE
    LET file      == Head(files)
        file_path == os_path_join(root, NodeName[file])
        rest      == concat_files(Tail(files), root, patterns, fs)
    IN  IF should_ignore(file_path, patterns) THEN rest
        ELSE Cat(Out(<< Block(file, file_path, fs) >>,
                     IF file \in fs.unreadable
                     THEN << LogRecord("error", "Failed to read", file_path) >>
                     ELSE << >>,
                     IF file \in fs.unreadable
                     THEN {Failure("content", "file", file_path)}
                     ELSE {}),
                 rest)

\* os.walk(top) with the loop body of concatenate_files_to_markdown applied
\* to each (root, dirs, files) it yields: a directory that cannot be scanned
\* yields nothing (onerror is None) and a linked directory is not entered
\* (followlinks is False)
RECURSIVE walk(_, _, _, _, _)
RECURSIVE walk_dirs(_, _, _, _, _)

\* walk_dirs that leaves out a directory whose path matches, as the tree
\* pass does
RECURSIVE walk_dirs_pruned(_, _, _, _, _)
walk_dirs_pruned(dirs, top, patterns, fs, rev) ==
  IF dirs = << >> THEN Nothing
  ELSE
    LET new_path == os_path_join(top, NodeName[Head(dirs)])
        rest     == walk_dirs_pruned(Tail(dirs), top, patterns, fs, rev)
    IN  IF Head(dirs) \in fs.links \/ should_ignore(new_path, patterns)
        THEN rest
        ELSE Cat(walk(Head(dirs), new_path, patterns, fs, rev), rest)

\* walk_dirs that enters no subdirectory: the files of the top level only
walk_dirs_flat(dirs, top, patterns, fs, rev) == Nothing

walk_dirs(dirs, top, patterns, fs, rev) ==
  IF dirs = << >> THEN Nothing
  ELSE
    LET new_path == os_path_join(top, NodeName[Head(dirs)])
        rest     == walk_dirs(Tail(dirs), top, patterns, fs, rev)
    IN  IF Head(dirs) \in fs.links THEN rest
        ELSE Cat(walk(Head(dirs), new_path, patterns, fs, rev), rest)

walk(d, top, patterns, fs, rev) ==
  IF d \in fs.unreadable
  THEN Out(<< >>, << >>, {Failure("content", "dir", top)})
  ELSE
    LET entries == scandir(d, fs.present, rev)
        dirs    == SelectSeq(entries, isdir)
        nondirs == SelectSeq(entries, LAMBDA n : ~ isdir(n))
    IN  Cat(concat_files(nondirs, top, patterns, fs),
            walk_dirs(dirs, top, patterns, fs, rev))

concatenate_files_to_markdown(directory, patterns, fs, rev) ==
  Cat(walk(Root, directory, patterns, fs, rev),
      Out(<< >>, << LogRecord("info", "Finished concatenating", << >>) >>, {}))

----------------------------------------------------------------------------
(* Inputs *)

RootPaths ==
  { << "." >>,
    << "p", "r", "o", "j" >>,
    << "/", "t", "m", "p", "/", "p", "r", "o", "j" >> }

\* pattern file lines of the runs that explore pattern files: patterns with
\* and without surrounding whitespace, comments, blank lines
RawLinePool ==
  { << "*", ".", "l", "o", "g", "\n" >>,
    << " ", "*", "b", "?", "i", "l", "d", " ", "\n" >>,
    << "b", "u", "i", "l", "d", "\n" >>,
    << "#", " ", "b", "u", "i", "l", "d", "\n" >>,
    << " ", " ", "#", "x", "\n" >>,
    << "\n" >>,
    << " ", " ", "\n" >>,
    << "a", ".", "t", "x", "t" >> }

\* the sequences over S of length at most n
SeqsUpTo(S, n) == UNION {[1..k -> S] : k \in 0..n}

\* the sets of entries that form a tree: each has its parent in the set
IsTree(E) == \A n \in E : n = Root \/ NodeParent[n] \in E

Entries == Nodes \ ({Root} \cup PatternFileNodes)

\* a pattern file that does not exist, and one with the given lines
Absent == [exists |-> FALSE, lines |-> << >>]
FileOf(content) == [exists |-> TRUE, lines |-> content]

\* the pattern files of the runs that explore directory trees, as pairs of
\* .gitignore and ignore.txt
LogLine == << "*", ".", "l", "o", "g", "\n" >>
BildLine == << " ", "*", "b", "?", "i", "l", "d", " ", "\n" >>
BuildLine == << "b", "u", "i", "l", "d", "\n" >>

TreePatternFiles ==
  ({Absent} \cup {FileOf(c) : c \in {<< LogLine >>, << BildLine >>,
                                     << BuildLine >>,
                                     << BuildLine, LogLine >>}})
     \X {Absent}
  \cup ({Absent, FileOf(<< BuildLine >>)} \X {FileOf(<< LogLine >>)})

\* the pattern files of the runs that explore pattern files: at most
\* MaxLines lines in the two files together
LoadPatternFiles ==
  {pf \in ({Absent} \cup {FileOf(c) : c \in SeqsUpTo(RawLinePool, MaxLines)})
          \X ({Absent} \cup {FileOf(c) : c \in SeqsUpTo(RawLinePool, MaxLines)}) :
     Len(pf[1].lines) + Len(pf[2].lines) <= MaxLines}

\* the state create_doc_file starts in, for a file system drawn from the
\* given entry sets, number of faults and pattern files
InitWith(entrySets, maxFaults, patternFiles) ==
  /\ root_path \in RootPaths
  /\ \E E \in entrySets, pf \in patternFiles :
        \* pf[1] is .gitignore and pf[2] is ignore.txt
        /\ present = {Root} \cup E
                     \cup {n \in PatternFileNodes : pf[n].exists}
        /\ lines = [n \in PatternFileNodes |-> pf[n].lines]
  /\ unreadable \in SUBSET (present \ PatternFileNodes)
  /\ links \in SUBSET ((present \cap Dirs) \ {Root})
  /\ Cardinality(unreadable) + Cardinality(links) <= maxFaults
  /\ pc = "start"
  /\ gitignore_path = << >>
  /\ ignore_patterns = << >>
  /\ file_tree = << >>
  /\ documentation = [has_tree |-> FALSE, tree |-> << >>, content |-> << >>]
  /\ written = FALSE
  /\ log = << >>
  /\ failures = {}

\* runs over directory trees of at most MaxEntries entries with at most
\* MaxFaults faults
Init ==
  InitWith({E \in SUBSET Entries : IsTree({Root} \cup E)
                                   /\ Cardinality(E) <= MaxEntries},
           MaxFaults, TreePatternFiles)

\* runs over pattern files of at most MaxLines lines beside one fixed tree
InitLoad == InitWith({{3, 4, 5, 6}}, 0, LoadPatternFiles)

----------------------------------------------------------------------------
(* create_doc_file *)

DEFAULT_GITIGNORE_TXT_PATH ==
  << ".", "/", "i", "g", "n", "o", "r", "e", ".", "t", "x", "t" >>

GitignoreName == NodeName[GitignoreNode]

FS == [present |-> present, unreadable |-> unreadable, links |-> links]

\* the lookup with the two files in the other order: ignore.txt if it exists
choose_fallback_first(top, exist) ==
  IF os_path_exists(os_path_join(top, DEFAULT_GITIGNORE_TXT_PATH), top, exist)
  THEN os_path_join(top, DEFAULT_GITIGNORE_TXT_PATH)
  ELSE os_path_join(top, GitignoreName)

\* the pattern file lookup: .gitignore if it exists, else the fallback
choose_gitignore_path(top, exist) ==
  IF os_path_exists(os_path_join(top, GitignoreName), top, exist)
  THEN os_path_join(top, GitignoreName)
  ELSE os_path_join(top, DEFAULT_GITIGNORE_TXT_PATH)

\* lines 104-108: settle on the pattern file and read it
Load ==
  /\ pc = "start"
  /\ gitignore_path' = choose_gitignore_path(root_path, present)
  /\ LET r == read_gitignore(gitignore_path', root_path, present, lines)
     IN  /\ ignore_patterns' = r.patterns
         /\ log' = log \o r.log
  /\ pc' = "loaded"
  /\ UNCHANGED << root_path, present, unreadable, links, lines, file_tree,
                  documentation, written, failures >>

\* lines 112-113: the tree pass
RenderTree ==
  /\ pc = "loaded"
  /\ LET r == format_directory_structure(root_path, ignore_patterns, FS)
     IN  /\ file_tree' = r.text
         /\ log' = log \o r.log
         /\ failures' = failures \cup r.fails
  /\ pc' = "tree"
  /\ UNCHANGED << root_path, present, unreadable, links, lines,
                  gitignore_path, ignore_patterns, documentation, written >>

\* line 116: the content pass
RenderContent ==
  /\ pc = "tree"
  /\ \E rev \in BOOLEAN :
        LET r == concatenate_files_to_markdown(root_path, ignore_patterns,
                                               FS, rev)
        IN  /\ documentation' = [documentation EXCEPT !.content = r.text]
            /\ log' = log \o r.log
            /\ failures' = failures \cup r.fails
  /\ pc' = "content"
  /\ UNCHANGED << root_path, present, unreadable, links, lines,
                  gitignore_path, ignore_patterns, file_tree, written >>

\* lines 118-128: compose, write to save_path, or log and raise when the
\* write fails
Save ==
  /\ pc = "content"
  /\ \E include_file_tree \in BOOLEAN, ok \in BOOLEAN :
        /\ documentation' =
             IF include_file_tree
             THEN [documentation EXCEPT !.has_tree = TRUE, !.tree = file_tree]
             ELSE documentation
        /\ written' = ok
        /\ pc' = IF ok THEN "done" ELSE "raised"
        /\ log' = log \o
             << IF ok THEN LogRecord("info", "Documentation saved", << >>)
                ELSE LogRecord("error", "Error generating documentation",
                               << >>) >>
  /\ UNCHANGED << root_path, present, unreadable, links, lines,
                  gitignore_path, ignore_patterns, file_tree, failures >>

Next == Load \/ RenderTree \/ RenderContent \/ Save

Spec == Init /\ [][Next]_vars

SpecLoad == InitLoad /\ [][Next]_vars

----------------------------------------------------------------------------
(* Vocabulary of the properties *)

Range(s) == {s[i] : i \in DOMAIN s}

AfterLoad == pc # "start"
AfterTree == pc \in {"tree", "content", "done", "raised"}
AfterContent == pc \in {"content", "done", "raised"}

\* the path the two passes give entry n
PathOf(n) == JoinedPath(n, root_path)

\* the number of "## File:" headers that carry the path
HeaderCount(path) ==
  Cardinality({i \in DOMAIN documentation.content :
                 documentation.content[i].path = path})

HasHeader(n) == HeaderCount(PathOf(n)) > 0

\* the entry has a line of its own in the Tree Section
Listed(n) ==
  \E i \in DOMAIN file_tree :
     file_tree[i].kind # "error" /\ file_tree[i].path = PathOf(n)

\* Matches as the specification words it: some pattern glob-matches the
\* normalized path, or has some segment of the normalized path inside it
Matches(path, patternSet) ==
  \E p \in Range(patternSet) :
     \/ fnmatch(as_posix(path), p)
     \/ \E segment \in Range(split(as_posix(path))) : IsIn(segment, p)

\* the orderings of a pattern set
Reorderings(patternSet) ==
  {[i \in DOMAIN patternSet |-> patternSet[f[i]]] :
     f \in Permutations(DOMAIN patternSet)}

----------------------------------------------------------------------------
(* C3 *)

\* C3: should_ignore returns true exactly when some pattern of the set
\* glob-matches the normalized path or contains one of its "/"-separated
\* segments as a substring; it is false for every path under the empty
\* Pattern Set, and reordering the patterns never changes the result.  The
\* content pass shows the result: without read failures a file has no
\* header exactly when Matches holds of its path.
C3_MatchesAnyPattern ==
  AfterContent =>
    \A n \in present \ {Root} :
       /\ should_ignore(PathOf(n), ignore_patterns)
            = Matches(PathOf(n), ignore_patterns)
       /\ (n \in Files /\ unreadable = {} /\ links = {})
            => (~ HasHeader(n)) = Matches(PathOf(n), ignore_patterns)
       /\ ~ should_ignore(PathOf(n), << >>)
       /\ \A q \in Reorderings(ignore_patterns) :
             should_ignore(PathOf(n), q)
               = should_ignore(PathOf(n), ignore_patterns)

\* two patterns are loaded, an entry is excluded by the substring rule of
\* the second pattern alone, and another entry matches no pattern
C3_Witness ==
  /\ AfterContent
  /\ Len(ignore_patterns) >= 2
  /\ \E n \in present \ {Root} :
        /\ ~ PatternHits(as_posix(PathOf(n)), ignore_patterns[1])
        /\ ~ fnmatch(as_posix(PathOf(n)), ignore_patterns[2])
        /\ PatternHits(as_posix(PathOf(n)), ignore_patterns[2])
        /\ n \in Files /\ ~ HasHeader(n)
  /\ \E n \in present \cap Files : HasHeader(n)

----------------------------------------------------------------------------
(* C7 *)

\* a line without its leading and trailing whitespace, found by position
Trimmed(line) ==
  LET solid == {i \in 1..Len(line) : line[i] \notin Whitespace}
  IN  IF solid = {} THEN << >>
      ELSE SubSeq(line,
                  CHOOSE i \in solid : \A j \in solid : i <= j,
                  CHOOSE i \in solid : \A j \in solid : j <= i)

IsPatternLine(text) == text # << >> /\ text[1] # "#"

\* the pattern file read_gitignore opened, if there is one
FileRead == Lookup(gitignore_path, root_path, present)

\* C7: the Pattern Set is, in file order, the trimmed lines of the pattern
\* file that are non-empty and do not start with "#"; so every pattern is
\* non-empty, has no whitespace at either end and does not begin with "#"
C7_PatternsAreTrimmedKeptLines ==
  AfterLoad =>
    /\ \A f \in FileRead :
          ignore_patterns =
            SelectSeq([i \in DOMAIN lines[f] |-> Trimmed(lines[f][i])],
                      IsPatternLine)
    /\ \A p \in Range(ignore_patterns) :
          /\ p # << >>
          /\ p[1] \notin Whitespace \cup {"#"}
          /\ p[Len(p)] \notin Whitespace

\* a file of two lines was read: one pattern padded with blanks, which was
\* kept trimmed, and one comment that starts after blanks, which was dropped
C7_Witness ==
  /\ AfterLoad
  /\ \E f \in FileRead :
        /\ Len(lines[f]) = 2
        /\ Len(ignore_patterns) = 1
        /\ \E k \in 1..2 :
              /\ lines[f][k][1] = " "
              /\ Trimmed(lines[f][k]) = ignore_patterns[1]
        /\ \E k \in 1..2 :
              /\ lines[f][k][1] = " "
              /\ StartsWith(Trimmed(lines[f][k]), << "#" >>)

----------------------------------------------------------------------------
(* C6 *)

\* the tree pass gets to the entry: every directory above it can be listed
TreeReachable(n) == \A a \in Ancestors(n) : a \notin unreadable

\* os.walk gets to the entry: every directory above it can be scanned and
\* none below the project directory is a symbolic link
Walkable(n) == \A a \in Ancestors(n) : a \notin unreadable /\ a \notin links

\* C6: with neither .gitignore nor the fallback file the Pattern Set is
\* empty, the miss is only a warning, and the passes leave nothing out:
\* every entry the tree pass gets to is listed and every file the walk gets
\* to has its header.  When .gitignore exists it is the file read; the
\* fallback is the file read only when .gitignore does not exist.
C6_MissingPatternFileIsEmptySet ==
  AfterLoad =>
    /\ GitignoreNode \in present =>
         /\ FileRead = {GitignoreNode}
         /\ ignore_patterns = read_lines(lines[GitignoreNode])
    /\ (GitignoreNode \notin present /\ FallbackNode \in present) =>
         /\ FileRead = {FallbackNode}
         /\ ignore_patterns = read_lines(lines[FallbackNode])
    /\ FileRead = {FallbackNode} => GitignoreNode \notin present
    /\ (GitignoreNode \notin present /\ FallbackNode \notin present) =>
         /\ FileRead = {}
         /\ ignore_patterns = << >>
         /\ log[1] = LogRecord("warning", "not found", gitignore_path)
         /\ AfterTree =>
              \A n \in present \ {Root} : TreeReachable(n) => Listed(n)
         /\ AfterContent =>
              \A n \in present \cap Files :
                 Walkable(n) => HeaderCount(PathOf(n)) = 1
         /\ pc = "done" => written

\* a run without pattern files wrote a document that lists a directory and
\* holds the header of a file inside it
C6_Witness ==
  /\ pc = "done"
  /\ present \cap PatternFileNodes = {}
  /\ \E n \in present \cap Files :
        /\ NodeParent[n] # Root
        /\ HasHeader(n)
        /\ Listed(n)
        /\ Listed(NodeParent[n])

----------------------------------------------------------------------------
(* C1, C2, C4, C10: what the two passes leave out *)

\* the entry or a directory above it (below the project directory) has a
\* path that satisfies Matches
Pruned(n) ==
  \E a \in (Ancestors(n) \cup {n}) \ {Root} :
     should_ignore(PathOf(a), ignore_patterns)

\* C1: a file under rootPath is absent from the Tree Section exactly when
\* it has no "## File:" block in the Content Section
C1_PassesExcludeTheSameFiles ==
  AfterContent =>
    \A n \in present \cap Files : (~ Listed(n)) = (~ HasHeader(n))

\* C2: the headers of the Content Section are those of the files anywhere
\* under rootPath whose own joined path does not satisfy Matches, once each
C2_HeadersAreAllUnmatchedFiles ==
  AfterContent =>
    /\ \A n \in present \cap Files :
          HeaderCount(PathOf(n)) =
            IF should_ignore(PathOf(n), ignore_patterns) THEN 0 ELSE 1
    /\ \A i \in DOMAIN documentation.content :
          \E n \in present \cap Files :
             documentation.content[i].path = PathOf(n)

\* C2 as amended: the headers are those of the files that os.walk gets to
\* (through directories that can be scanned and, below rootPath, are not
\* symbolic links) and whose own joined path does not satisfy Matches, once
\* each; a directory that matches a pattern does not hide its files
C2_HeadersAreWalkedUnmatchedFiles ==
  AfterContent =>
    /\ \A n \in present \cap Files :
          HeaderCount(PathOf(n)) =
            IF Walkable(n) /\ ~ should_ignore(PathOf(n), ignore_patterns)
            THEN 1 ELSE 0
    /\ \A i \in DOMAIN documentation.content :
          \E n \in present \cap Files :
             documentation.content[i].path = PathOf(n)

\* a file inside a directory that matches a pattern has its header, a file
\* that matches has none, and a file in a directory that cannot be scanned
\* or is a symbolic link has none
C2_Witness ==
  /\ AfterContent
  /\ \/ \E n \in present \cap Files :
           /\ should_ignore(PathOf(NodeParent[n]), ignore_patterns)
           /\ NodeParent[n] # Root
           /\ HeaderCount(PathOf(n)) = 1
     \/ \E n \in present \cap Files :
           /\ ~ Walkable(n)
           /\ ~ should_ignore(PathOf(n), ignore_patterns)
           /\ HeaderCount(PathOf(n)) = 0
           /\ \E m \in present \cap Files : HasHeader(m)

ALog == CHOOSE n \in Nodes : NodeParent[n] = Root /\ NodeName[n] = << "a", ".", "l", "o", "g" >>
ATxt == CHOOSE n \in Nodes : NodeParent[n] = Root /\ NodeName[n] = << "a", ".", "t", "x", "t" >>

\* C4: with the Pattern Set ["*.log"] and the readable files a.log and
\* a.txt in the project directory, a.txt has a header and a.log has none,
\* whatever the path of the project directory is
C4_LogScenario ==
  ( /\ AfterContent
    /\ ignore_patterns = << << "*", ".", "l", "o", "g" >> >>
    /\ {ALog, ATxt} \subseteq present
    /\ unreadable = {}
    /\ links = {} )
  => /\ HasHeader(ATxt)
     /\ ~ HasHeader(ALog)

\* C10: without symbolic links and read failures, every file with a line in
\* the Tree Section has a "## File:" block in the Content Section
C10_TreeFilesHaveBlocks ==
  (AfterContent /\ unreadable = {} /\ links = {}) =>
    \A n \in present \cap Files : Listed(n) => HasHeader(n)

\* a fault-free run under a non-empty Pattern Set listed a file of a
\* subdirectory in the tree and gave it a block, and left out another entry
C10_Witness ==
  /\ AfterContent
  /\ unreadable = {}
  /\ links = {}
  /\ ignore_patterns # << >>
  /\ \E n \in present \cap Files :
        NodeParent[n] # Root /\ Listed(n) /\ HasHeader(n)
  /\ \E n \in present \ {Root} : ~ Listed(n)

----------------------------------------------------------------------------
(* C5, C8: the Tree Section *)

\* the tree pass lists the directory: it gets to it, enters it and reads it
TreeVisited(d) ==
  /\ d \in present \cap Dirs
  /\ TreeReachable(d)
  /\ ~ Pruned(d)
  /\ d \notin unreadable

\* the lines of the Tree Section that stand for entry n
LinesOf(n) ==
  {i \in DOMAIN file_tree : file_tree[i].kind # "error" /\ file_tree[i].node = n}

\* the number of directories between the entry and the project directory
Depth(n) == Cardinality(Ancestors(n)) - 1

\* C5: an entry whose path satisfies Matches has no line and, when it is a
\* directory, nothing below it has one; every other entry of a directory the
\* pass lists has exactly one line, a directory as "name/", at the indent of
\* its depth; the lines of a directory's entries come after its own line,
\* one level deeper, before any line of a shallower entry, and in ascending
\* order of their names
C5_TreeSkipsMatchedListsTheRest ==
  AfterTree =>
    /\ \A i \in DOMAIN file_tree :
          file_tree[i].kind # "error" =>
             ~ should_ignore(file_tree[i].path, ignore_patterns)
    /\ \A n \in present \ {Root} : Pruned(n) => ~ Listed(n)
    /\ \A n \in present \ {Root} :
          (TreeVisited(NodeParent[n])
             /\ ~ should_ignore(PathOf(n), ignore_patterns))
          => /\ Cardinality(LinesOf(n)) = 1
             /\ \A i \in LinesOf(n) :
                   /\ file_tree[i].path = PathOf(n)
                   /\ file_tree[i].indent = Depth(n)
                   /\ file_tree[i].kind = IF n \in Dirs THEN "dir" ELSE "file"
                   /\ file_tree[i].text =
                        IF n \in Dirs THEN NodeName[n] \o << "/" >>
                        ELSE NodeName[n]
    /\ \A i \in DOMAIN file_tree :
          (file_tree[i].kind # "error"
             /\ NodeParent[file_tree[i].node] # Root)
          => \E j \in 1..(i - 1) :
                /\ file_tree[j].kind = "dir"
                /\ file_tree[j].node = NodeParent[file_tree[i].node]
                /\ file_tree[j].indent + 1 = file_tree[i].indent
                /\ \A k \in (j + 1)..i :
                      file_tree[k].indent > file_tree[j].indent
    /\ \A i, j \in DOMAIN file_tree :
          (/\ i < j
           /\ file_tree[i].kind # "error"
           /\ file_tree[j].kind # "error"
           /\ NodeParent[file_tree[i].node] = NodeParent[file_tree[j].node])
          => StrLess(NodeName[file_tree[i].node], NodeName[file_tree[j].node])

\* the tree lists two entries of the project directory and a directory
\* with an entry of its own, while a directory that matches a pattern and
\* the file inside it, which matches none, have no line
C5_Witness ==
  /\ AfterTree
  /\ \E d \in (present \cap Dirs) \ {Root} :
        /\ should_ignore(PathOf(d), ignore_patterns)
        /\ \E n \in present :
              /\ n # Root /\ NodeParent[n] = d
              /\ ~ should_ignore(PathOf(n), ignore_patterns)
              /\ ~ Listed(n)
  /\ \E n, m \in present \ {Root} :
        /\ n # m
        /\ NodeParent[n] = NodeParent[m]
        /\ Listed(n) /\ Listed(m)

\* everything below an entry
Descendants(d) == {n \in Nodes : d \in Ancestors(n)}

\* a sequence without its i-th element
RemoveAt(s, i) == SubSeq(s, 1, i - 1) \o SubSeq(s, i + 1, Len(s))

\* the file system with directory d readable and empty
AsIfEmpty(d) ==
  [present |-> present \ Descendants(d),
   unreadable |-> unreadable \ {d},
   links |-> links]

\* C8: a directory below the project directory that the tree pass enters
\* and cannot list still has its "name/" line; one error line, one level
\* deeper, stands where its entries would; nothing else is below it; the
\* entries of its parent that sort after it are listed; and without that
\* error line the Tree Section is the one of the same tree with the
\* directory readable and empty
C8_UnreadableDirectoryIsLocal ==
  AfterTree =>
    \A d \in (present \cap Dirs \cap unreadable) \ {Root} :
       (TreeVisited(NodeParent[d])
          /\ ~ should_ignore(PathOf(d), ignore_patterns))
       => /\ Cardinality(LinesOf(d)) = 1
          /\ \A i \in LinesOf(d) :
                /\ file_tree[i].kind = "dir"
                /\ i + 1 <= Len(file_tree)
                /\ file_tree[i + 1].kind = "error"
                /\ file_tree[i + 1].path = PathOf(d)
                /\ file_tree[i + 1].indent = file_tree[i].indent + 1
                /\ i + 2 <= Len(file_tree) =>
                     file_tree[i + 2].indent <= file_tree[i].indent
                /\ RemoveAt(file_tree, i + 1)
                     = format_directory_structure(root_path, ignore_patterns,
                                                  AsIfEmpty(d)).text
                /\ \A n \in present \ {Root} :
                      (/\ NodeParent[n] = NodeParent[d]
                       /\ StrLess(NodeName[d], NodeName[n])
                       /\ ~ should_ignore(PathOf(n), ignore_patterns))
                      => \E j \in LinesOf(n) : j > i + 1
          /\ Cardinality({i \in DOMAIN file_tree :
                            /\ file_tree[i].kind = "error"
                            /\ file_tree[i].path = PathOf(d)}) = 1

\* the tree lists a directory that could not be read, with something inside
\* it on disk, and after it an entry of the same parent
C8_Witness ==
  /\ AfterTree
  /\ \E d \in (present \cap Dirs \cap unreadable) \ {Root} :
        /\ Listed(d)
        /\ \E c \in present : c # Root /\ NodeParent[c] = d
        /\ \E n \in present \ {Root} :
              /\ NodeParent[n] = NodeParent[d]
              /\ StrLess(NodeName[d], NodeName[n])
              /\ \E i \in LinesOf(d), j \in LinesOf(n) : i < j

----------------------------------------------------------------------------
(* C9 *)

\* C9: every read failure of a directory or a file in either pass has a
\* log record that names the path, and so has a missing pattern file, by
\* the time the run is through the passes; the run then writes the document
\* unless the write itself fails
C9_EveryFailureIsLogged ==
  /\ AfterContent =>
       \A f \in failures :
          \E r \in Range(log) : r.level = "error" /\ r.path = f.path
  /\ (AfterLoad /\ FileRead = {}) =>
       \E r \in Range(log) : r.level = "warning" /\ r.path = gitignore_path

====
